---------------------------- MODULE Spec2Model ----------------------------
(***************************************************************************)
(* Telemetry-to-visual-state synchronisation of the water-treatment-plant  *)
(* dashboard: the poller and the normaliser of src/api-config.js and the   *)
(* store, the per-frame resolver and the alarm pass of                     *)
(* src/wtp-visualizer.js.                                                  *)
(*                                                                         *)
(* Numbers are fixed point.  Telemetry readings are in tenths (Level 65.0  *)
(* is 650), emissive intensities in thousandths, scale factors in          *)
(* ten-thousandths, heights in hundred-thousandths, the render clock in    *)
(* milliseconds.  Colors are the 24-bit integers of the source.            *)
(***************************************************************************)
EXTENDS Integers, Sequences, FiniteSets, TLC

(***************************************************************************)
(* JavaScript values.  Every value has the same record shape so that any   *)
(* two of them can be compared.                                            *)
(***************************************************************************)
Num(n) == [t |-> "num", n |-> n, b |-> FALSE, s |-> ""]
Bool(b) == [t |-> "bool", n |-> 0, b |-> b, s |-> ""]
Str(s) == [t |-> "str", n |-> 0, b |-> FALSE, s |-> s]
Undef == [t |-> "undef", n |-> 0, b |-> FALSE, s |-> ""]
NaN == [t |-> "nan", n |-> 0, b |-> FALSE, s |-> ""]

\* ToBoolean: what `x || d`, `x ? a : b` and `if (x)` test.
Truthy(v) ==
    CASE v.t = "num" -> v.n # 0
      [] v.t = "bool" -> v.b
      [] v.t = "str" -> v.s # ""
      [] OTHER -> FALSE

\* x || d
OrElse(v, d) == IF Truthy(v) THEN v ELSE d

\* The decimal strings the telemetry source is modelled to send, in tenths.
FloatTable == [s \in {"7.2", "6.8", "0", "0.0"} |->
                 CASE s = "7.2" -> 72 [] s = "6.8" -> 68 [] OTHER -> 0]

\* parseFloat(x): numbers pass, decimal strings are read, the rest is NaN.
ParseFloat(v) ==
    CASE v.t = "num" -> v
      [] v.t = "str" -> IF v.s \in DOMAIN FloatTable THEN Num(FloatTable[v.s]) ELSE NaN
      [] OTHER -> NaN

(***************************************************************************)
(* Objects are functions from the property names they own to values; a     *)
(* subsystem of the snapshot is an object or an array of objects.          *)
(***************************************************************************)
EmptyObj == [x \in {} |-> Undef]
Obj(f) == [isArray |-> FALSE, fields |-> f, items |-> <<>>]
Arr(s) == [isArray |-> TRUE, fields |-> EmptyObj, items |-> s]

\* o.name on a plain object
Prop(o, name) == IF name \in DOMAIN o THEN o[name] ELSE Undef

\* snapshot.KEY?.name; an array owns no named reading
Field(pd, key, name) ==
    IF key \notin DOMAIN pd THEN Undef
    ELSE IF pd[key].isArray THEN Undef
    ELSE Prop(pd[key].fields, name)

(***************************************************************************)
(* transformApiData, src/api-config.js                                     *)
(***************************************************************************)
defaultZero == Num(0)
defaultFalse == Bool(FALSE)
defaultMode == Str("AUTO")
defaultPH == Num(70)

RWTOf(w) ==
    ("Level" :> OrElse(Prop(w, "rwtLevel"), defaultZero))
 @@ ("High_Level_Alarm" :> OrElse(Prop(w, "rwtLevelHighAlarm"), defaultFalse))
 @@ ("Low_Level_Alarm" :> OrElse(Prop(w, "rwtLevelLowAlarm"), defaultFalse))
 @@ ("Inflow_Rate" :> OrElse(Prop(w, "rwtInflowRate"), defaultZero))
 @@ ("Outflow_Rate" :> OrElse(Prop(w, "rwtOutflowRate"), defaultZero))
 @@ ("pH" :> OrElse(ParseFloat(Prop(w, "rwtph")), defaultPH))
 @@ ("Turbidity" :> OrElse(Prop(w, "rwtTurbidity"), defaultZero))

CDPOf(w) ==
    ("Status" :> OrElse(Prop(w, "cdpStatus"), defaultFalse))
 @@ ("Mode" :> OrElse(Prop(w, "cdpMode"), defaultMode))
 @@ ("Dosing_Rate" :> OrElse(Prop(w, "cdpDosingRate"), defaultZero))
 @@ ("Total_Chemical_Used" :> OrElse(Prop(w, "cdpTotalChemicalUsed"), defaultZero))
 @@ ("Pressure" :> OrElse(Prop(w, "cdpPressure"), defaultZero))
 @@ ("Fault" :> OrElse(Prop(w, "cdpFault"), defaultFalse))

CSTOf(w) ==
    ("Level" :> OrElse(Prop(w, "cstLevel"), defaultZero))
 @@ ("Low_Level_Alarm" :> OrElse(Prop(w, "cstLowLevelAlarm"), defaultFalse))

CFTOf(w) ==
    ("Level" :> OrElse(Prop(w, "cftLevel"), defaultZero))
 @@ ("Mixer_Status" :> OrElse(Prop(w, "cftMixerStatus"), defaultFalse))
 @@ ("pH" :> OrElse(ParseFloat(Prop(w, "cftph")), defaultPH))
 @@ ("Turbidity" :> OrElse(Prop(w, "cftTurbidity"), defaultZero))
 @@ ("Dosing_Rate" :> OrElse(Prop(w, "cftDosingRate"), defaultZero))

SCTSlot(w) ==
    ("Level" :> OrElse(Prop(w, "sctLevel"), defaultZero))
 @@ ("Sludge_Level" :> OrElse(Prop(w, "sctSludgeLevel"), defaultZero))
 @@ ("Turbidity_Outlet" :> OrElse(Prop(w, "sctTurbidityOutlet"), defaultZero))
 @@ ("Scraper_Status" :> OrElse(Prop(w, "sctScraperStatus"), defaultFalse))

FTROf(w) ==
    ("Differential_Pressure" :> OrElse(Prop(w, "ftrDifferentialPressure"), defaultZero))
 @@ ("Flow_Rate" :> OrElse(Prop(w, "ftrFlowRate"), defaultZero))
 @@ ("Backwash_Status" :> OrElse(Prop(w, "ftrBackwashStatus"), defaultFalse))

CWTSlot(w) ==
    ("Level" :> OrElse(Prop(w, "cwtLevel"), defaultZero))
 @@ ("High_Level_Alarm" :> OrElse(Prop(w, "cwtLevelHighAlarm"), defaultFalse))
 @@ ("Low_Level_Alarm" :> OrElse(Prop(w, "cwtLevelLowAlarm"), defaultFalse))
 @@ ("pH" :> OrElse(ParseFloat(Prop(w, "cwtph")), defaultPH))
 @@ ("Turbidity" :> OrElse(Prop(w, "cwtTurbidity"), defaultZero))
 @@ ("Residual_Chlorine" :> OrElse(Prop(w, "cwtResidualChlorine"), defaultZero))

SLTOf(w) ==
    ("Level" :> OrElse(Prop(w, "sltLevel"), defaultZero))
 @@ ("Pump_Status" :> OrElse(Prop(w, "sltPumpStatus"), defaultFalse))

PPSOf(w) ==
    ("Status" :> OrElse(Prop(w, "ppsPumpStatus"), defaultFalse))
 @@ ("Mode" :> OrElse(Prop(w, "ppsMode"), defaultMode))
 @@ ("Flow_Rate" :> OrElse(Prop(w, "ppsFlowRate"), defaultZero))
 @@ ("Outlet_Pressure" :> OrElse(Prop(w, "ppsOutletPressure"), defaultZero))
 @@ ("Fault" :> OrElse(Prop(w, "ppsFault"), defaultFalse))

PLTOf(w) ==
    ("Total_Inflow" :> OrElse(Prop(w, "pltTotalInflow"), defaultZero))
 @@ ("Total_Outflow" :> OrElse(Prop(w, "pltTotalOutflow"), defaultZero))
 @@ ("System_Mode" :> OrElse(Prop(w, "pltSystemMode"), defaultMode))
 @@ ("Alarm_Status" :> OrElse(Prop(w, "pltAlarmStatus"), defaultFalse))

\* A transform that fills the first slot of each pair only.
TransformFirstSlot(w) ==
    ("RWT" :> Obj(RWTOf(w)))
 @@ ("CDP" :> Obj(CDPOf(w)))
 @@ ("CST" :> Obj(CSTOf(w)))
 @@ ("CFT" :> Obj(CFTOf(w)))
 @@ ("SCT" :> Arr(<<SCTSlot(w), SCTSlot(EmptyObj)>>))
 @@ ("FTR" :> Obj(FTROf(w)))
 @@ ("CWT" :> Arr(<<CWTSlot(w), CWTSlot(EmptyObj)>>))
 @@ ("SLT" :> Obj(SLTOf(w)))
 @@ ("PPS" :> Obj(PPSOf(w)))
 @@ ("PLT" :> Obj(PLTOf(w)))

\* The canonical state built from one reading record.
TransformRecord(w) ==
    ("RWT" :> Obj(RWTOf(w)))
 @@ ("CDP" :> Obj(CDPOf(w)))
 @@ ("CST" :> Obj(CSTOf(w)))
 @@ ("CFT" :> Obj(CFTOf(w)))
 @@ ("SCT" :> Arr(<<SCTSlot(w), SCTSlot(w)>>))
 @@ ("FTR" :> Obj(FTROf(w)))
 @@ ("CWT" :> Arr(<<CWTSlot(w), CWTSlot(w)>>))
 @@ ("SLT" :> Obj(SLTOf(w)))
 @@ ("PPS" :> Obj(PPSOf(w)))
 @@ ("PLT" :> Obj(PLTOf(w)))

\* A response body: body.data.waterTreatmentPlantComponentsData is `records`
\* when hasData, and the chain of ?. yields undefined when it is not.
NullState == [isNull |-> TRUE, state |-> EmptyObj]
NonNull(st) == [isNull |-> FALSE, state |-> st]

\* A transformApiData that reads the last element of the array.
transformLastRecord(apiResponse) ==
    IF ~apiResponse.hasData \/ Len(apiResponse.records) = 0
    THEN NullState
    ELSE NonNull(TransformRecord(apiResponse.records[Len(apiResponse.records)]))

transformApiData(apiResponse) ==
    IF ~apiResponse.hasData \/ Len(apiResponse.records) = 0
    THEN NullState
    ELSE NonNull(TransformRecord(apiResponse.records[1]))

(***************************************************************************)
(* The store, src/wtp-visualizer.js                                        *)
(***************************************************************************)
getDefaultPayload ==
    ("RWT" :> Obj(("Level" :> Num(650)) @@ ("High_Level_Alarm" :> Bool(FALSE))
                  @@ ("Low_Level_Alarm" :> Bool(FALSE)) @@ ("Inflow_Rate" :> Num(1200))
                  @@ ("Outflow_Rate" :> Num(1150)) @@ ("pH" :> Num(72))
                  @@ ("Turbidity" :> Num(450))))
 @@ ("CDP" :> Obj(("Status" :> Bool(TRUE)) @@ ("Mode" :> Str("AUTO"))
                  @@ ("Dosing_Rate" :> Num(55)) @@ ("Total_Chemical_Used" :> Num(12500))
                  @@ ("Pressure" :> Num(25)) @@ ("Fault" :> Bool(FALSE))))
 @@ ("CST" :> Obj(("Level" :> Num(780)) @@ ("Low_Level_Alarm" :> Bool(FALSE))))
 @@ ("CFT" :> Obj(("Level" :> Num(550)) @@ ("Mixer_Status" :> Bool(TRUE))
                  @@ ("pH" :> Num(68)) @@ ("Turbidity" :> Num(250))
                  @@ ("Dosing_Rate" :> Num(32))))
 @@ ("SCT" :> Obj(("Level" :> Num(700)) @@ ("Sludge_Level" :> Num(150))
                  @@ ("Turbidity_Outlet" :> Num(80)) @@ ("Scraper_Status" :> Bool(TRUE))))
 @@ ("FTR" :> Obj(("Differential_Pressure" :> Num(8)) @@ ("Flow_Rate" :> Num(950))
                  @@ ("Backwash_Status" :> Bool(FALSE))))
 @@ ("CWT" :> Obj(("Level" :> Num(820)) @@ ("High_Level_Alarm" :> Bool(FALSE))
                  @@ ("Low_Level_Alarm" :> Bool(FALSE)) @@ ("pH" :> Num(70))
                  @@ ("Turbidity" :> Num(5)) @@ ("Residual_Chlorine" :> Num(8))))
 @@ ("SLT" :> Obj(("Level" :> Num(350)) @@ ("Pump_Status" :> Bool(FALSE))))
 @@ ("PPS" :> Obj(("Pump1_Status" :> Bool(TRUE)) @@ ("Pump2_Status" :> Bool(FALSE))
                  @@ ("Mode" :> Str("AUTO")) @@ ("Flow_Rate" :> Num(1100))
                  @@ ("Outlet_Pressure" :> Num(32)) @@ ("Fault" :> Bool(FALSE))))
 @@ ("PLT" :> Obj(("Total_Inflow" :> Num(1200)) @@ ("Total_Outflow" :> Num(1150))
                  @@ ("System_Mode" :> Str("AUTO")) @@ ("Alarm_Status" :> Bool(FALSE))))

\* An updatePlantData that starts again from the default payload.
updateFromDefaults(pd, payload) ==
    [k \in DOMAIN pd \cup DOMAIN payload |->
        IF k \in DOMAIN payload THEN payload[k]
        ELSE IF k \in DOMAIN getDefaultPayload THEN getDefaultPayload[k] ELSE pd[k]]

\* An updatePlantData that is cut short after the first subsystem it copies.
updateCutShort(pd, payload) ==
    [k \in DOMAIN pd \cup DOMAIN payload |->
        IF k \in DOMAIN payload /\ (k = "RWT" \/ k \notin DOMAIN pd)
        THEN payload[k] ELSE pd[k]]

\* plantData = { ...plantData, ...payload }: an own key of the payload replaces
\* the stored value of that key, the other keys are kept.
updatePlantData(pd, payload) ==
    [k \in DOMAIN pd \cup DOMAIN payload |->
        IF k \in DOMAIN payload THEN payload[k] ELSE pd[k]]

(***************************************************************************)
(* Telemetry the source can answer with.                                   *)
(***************************************************************************)
\* The reading of the pump debug guide: PPS on, CDP off, no fault.
RecScenario ==
    ("rwtLevel" :> Num(411)) @@ ("rwtph" :> Str("7.2")) @@ ("cftMixerStatus" :> Bool(TRUE))
 @@ ("ppsPumpStatus" :> Bool(TRUE)) @@ ("ppsFault" :> Bool(FALSE))
 @@ ("cdpStatus" :> Bool(FALSE)) @@ ("cdpFault" :> Bool(FALSE))
 @@ ("ppsFlowRate" :> Num(1233)) @@ ("ppsMode" :> Str("MANUAL"))
 @@ ("sctLevel" :> Num(700)) @@ ("sctScraperStatus" :> Bool(TRUE))
 @@ ("cwtLevel" :> Num(820))

\* The same reading with the PPS fault raised.
RecPpsFault == ("ppsFault" :> Bool(TRUE)) @@ RecScenario

\* Alarms and a CDP fault, PPS off.
RecAlarms ==
    ("rwtLevel" :> Num(980)) @@ ("rwtLevelHighAlarm" :> Bool(TRUE))
 @@ ("cwtLevel" :> Num(50)) @@ ("cwtLevelLowAlarm" :> Bool(TRUE))
 @@ ("cdpStatus" :> Bool(TRUE)) @@ ("cdpFault" :> Bool(TRUE))
 @@ ("ppsPumpStatus" :> Bool(FALSE)) @@ ("ppsFault" :> Bool(FALSE))

\* A record that carries no reading at all.
RecEmpty == EmptyObj

RawRecords == {RecScenario, RecPpsFault, RecAlarms, RecEmpty}

Body(success, msg, hasData, records) ==
    [success |-> success, message |-> msg, hasData |-> hasData, records |-> records]

NoBody == Body(FALSE, "", FALSE, <<>>)

\* What one fetch can come back with: fetch() rejects with a browser message, or
\* a response arrives with a status and a JSON body.
Rejected(msg) == [rejected |-> TRUE, rejectMessage |-> msg, ok |-> FALSE,
                  statusLine |-> "", body |-> NoBody]
Responded(ok, statusLine, body) == [rejected |-> FALSE, rejectMessage |-> "", ok |-> ok,
                                    statusLine |-> statusLine, body |-> body]

TransportMessages == {"Failed to fetch", "NetworkError when attempting to fetch resource."}

SuccessOutcomes ==
    {Responded(TRUE, "HTTP 200: OK", Body(TRUE, "", TRUE, <<r>>)) : r \in RawRecords}
    \cup {Responded(TRUE, "HTTP 200: OK", Body(TRUE, "", TRUE, <<RecScenario, RecAlarms>>))}

FailureOutcomes ==
    {Rejected(m) : m \in TransportMessages}
    \cup {Responded(FALSE, "HTTP 401: Unauthorized", NoBody),
          Responded(FALSE, "HTTP 500: Internal Server Error", NoBody),
          Responded(TRUE, "HTTP 200: OK", Body(FALSE, "", TRUE, <<RecScenario>>)),
          Responded(TRUE, "HTTP 200: OK", Body(FALSE, "Device offline", FALSE, <<>>)),
          Responded(TRUE, "HTTP 200: OK", Body(TRUE, "", FALSE, <<>>)),
          Responded(TRUE, "HTTP 200: OK", Body(TRUE, "", TRUE, <<>>))}

Outcomes == SuccessOutcomes \cup FailureOutcomes

\* Reading records that vary four source fields one by one: left out, sent as
\* the natural type, sent falsy, sent as a value of another type.
LevelReadings == {Undef, Num(411), Num(0), Str("n/a")}
PhReadings == {Undef, Str("7.2"), Str("0.0"), Str("n/a"), Num(68)}
ModeReadings == {Undef, Str("MANUAL"), Str(""), Num(1)}
StatusReadings == {Undef, Bool(TRUE), Bool(FALSE), Str("ON")}

\* The object that owns exactly the properties that were sent.
Sent(level, ph, mode, status) ==
    LET all == ("rwtLevel" :> level) @@ ("rwtph" :> ph) @@ ("ppsMode" :> mode)
               @@ ("ppsPumpStatus" :> status)
    IN [k \in {x \in DOMAIN all : all[x] # Undef} |-> all[k]]

VariedRecords ==
    {Sent(l, Str("7.2"), Str("MANUAL"), Bool(TRUE)) : l \in LevelReadings}
    \cup {Sent(Num(411), ph, Undef, s) : ph \in PhReadings, s \in StatusReadings}
    \cup {Sent(l, Undef, m, Bool(FALSE)) : l \in LevelReadings, m \in ModeReadings}

\* A record with the readings of the two paired subsystems.
RecTanks ==
    ("sctLevel" :> Num(700)) @@ ("sctSludgeLevel" :> Num(150))
 @@ ("sctTurbidityOutlet" :> Num(80)) @@ ("sctScraperStatus" :> Bool(TRUE))
 @@ ("cwtLevel" :> Num(820)) @@ ("cwtLevelHighAlarm" :> Bool(TRUE))
 @@ ("cwtph" :> Str("7.2")) @@ ("cwtTurbidity" :> Num(5))
 @@ ("cwtResidualChlorine" :> Num(8))

PairedRecords == {RecTanks, RecAlarms}

\* Successful answers around them: no envelope, no element, one, or two.
AnswerBodies ==
    {Body(TRUE, "", FALSE, <<>>), Body(TRUE, "", TRUE, <<>>)}
    \cup {Body(TRUE, "", TRUE, <<r>>) : r \in VariedRecords \cup PairedRecords}
    \cup {Body(TRUE, "", TRUE, <<r, q>>) : r \in VariedRecords, q \in {RecAlarms, RecEmpty}}

Answered(body) == Responded(TRUE, "HTTP 200: OK", body)

AllOutcomes == Outcomes \cup {Answered(b) : b \in AnswerBodies}

\* The failure taxonomy, read off what came back (not off the error message).
KindOf(o) ==
    IF o.rejected THEN "transport"
    ELSE IF ~o.ok \/ ~o.body.success THEN "protocol"
    ELSE IF ~o.body.hasData \/ o.body.records = <<>> THEN "normalization"
    ELSE "ok"

(***************************************************************************)
(* fetchPlantData, src/api-config.js: the error a fetch ends with, "" for  *)
(* none, and the value it resolves to.                                     *)
(***************************************************************************)
NoError == ""

\* const transformedData = transformApiData(apiResponse), for each answer.
Transformed == [o \in AllOutcomes |-> transformApiData(o.body)]

ThrownMessage(o) ==
    IF o.rejected THEN o.rejectMessage
    ELSE IF ~o.ok THEN o.statusLine
    ELSE IF ~o.body.success
         THEN (IF o.body.message # "" THEN o.body.message
               ELSE "API returned unsuccessful response")
    ELSE IF Transformed[o].isNull THEN "Failed to transform API data"
    ELSE NoError

\* error.message.includes('Failed to fetch') || error.message.includes('NetworkError')
IncludesFailedToFetch(msg) == msg \in {"Failed to fetch"}
IncludesNetworkError(msg) == msg \in {"NetworkError when attempting to fetch resource."}

\* A catch block that tells no transport failure apart.
StatusAlwaysError(msg) == "error"

StatusOfError(msg) ==
    IF IncludesFailedToFetch(msg) \/ IncludesNetworkError(msg)
    THEN "disconnected" ELSE "error"

maxRetries == 3

\* A poller that allows one failure more than maxRetries.
TooManyErrorsStrict(errors) == errors > maxRetries

\* consecutiveErrors >= API_CONFIG.maxRetries
TooManyErrors(errors) == errors >= maxRetries

(***************************************************************************)
(* The poller's module-level state, src/api-config.js, as one record, and  *)
(* startPolling, stopPolling and the bookkeeping of fetchPlantData on it.  *)
(* pollingIntervalId is TRUE when it holds a timer id, FALSE when null;    *)
(* liveTimers counts the interval timers set and not cleared;              *)
(* lastFetchTime is 0 when null.                                           *)
(***************************************************************************)
\* A stopPolling that leaves the interval timer set.
stopPollingKeepsTimer(p) ==
    IF ~p.isPolling THEN p
    ELSE [p EXCEPT !.isPolling = FALSE,
                   !.pollingIntervalId = FALSE,
                   !.connectionStatus = "disconnected"]

stopPolling(p) ==
    IF ~p.isPolling THEN p
    ELSE [p EXCEPT !.isPolling = FALSE,
                   !.pollingIntervalId = FALSE,
                   !.liveTimers = IF p.pollingIntervalId THEN @ - 1 ELSE @,
                   !.connectionStatus = "disconnected"]

\* A startPolling without the early return.
startPollingAgain(p) ==
    [p EXCEPT !.isPolling = TRUE,
              !.pollingIntervalId = TRUE,
              !.liveTimers = @ + 1]

startPolling(p) ==
    IF p.isPolling THEN p
    ELSE [p EXCEPT !.isPolling = TRUE,
                   !.pollingIntervalId = TRUE,
                   !.liveTimers = @ + 1]

\* A togglePolling that only ever starts.
toggleStarts(p) == startPolling(p)

\* togglePolling: stop a running poller, start a stopped one.
togglePolling(p) == IF p.isPolling THEN stopPolling(p) ELSE startPolling(p)

\* A try block that leaves the error counter alone.
FetchSucceededNoReset(p, now) ==
    [p EXCEPT !.connectionStatus = "connected",
              !.lastFetchTime = now]

\* The try block's tail: the fetch went through.
FetchSucceeded(p, now) ==
    [p EXCEPT !.connectionStatus = "connected",
              !.consecutiveErrors = 0,
              !.lastFetchTime = now]

\* The catch block.
FetchFailed(p, msg) ==
    LET counted == [p EXCEPT !.consecutiveErrors = @ + 1,
                             !.connectionStatus = StatusOfError(msg)]
    IN IF TooManyErrors(counted.consecutiveErrors) THEN stopPolling(counted) ELSE counted

fetchPlantData(p, o, now) ==
    IF ThrownMessage(o) = NoError THEN FetchSucceeded(p, now)
    ELSE FetchFailed(p, ThrownMessage(o))

\* A fetchAndUpdate that falls back to the default payload when the fetch fails.
fetchAndUpdateWithFallback(pd, o) ==
    IF ThrownMessage(o) = NoError
    THEN updatePlantData(pd, Transformed[o].state)
    ELSE updatePlantData(pd, getDefaultPayload)

\* fetchAndUpdate: the store after the fetch has come back with outcome o.
fetchAndUpdate(pd, o) ==
    IF ThrownMessage(o) = NoError
    THEN updatePlantData(pd, Transformed[o].state)
    ELSE pd

(***************************************************************************)
(* CONFIG, src/wtp-visualizer.js                                           *)
(***************************************************************************)
cleanWater == 5227511
rawWater == 9268835
sludge == 6111287
alarm == 16732754
pumpOn == 6942894
pumpOff == 6381921
black == 0
minScale == 500
maxScale == 10000

(***************************************************************************)
(* The scene nodes the frame update looks up, and what it writes on them.  *)
(***************************************************************************)
WaterMeshes == {"RWT_Water", "CST_Water", "CFT_Water", "SCT_Water", "CWT_Water", "SLT_Water"}
AlarmTanks == {"RWT", "CWT"}
PpsPumps == {"PPS_Pump1", "PPS_Pump2"}
Pumps == {"CDP"} \cup PpsPumps
Mixers == {"CFT_Mixer", "SCT_Scraper"}
Pipes == {"PIPE_RWT_CFT", "PIPE_CFT_SCT"}
PipesWithMap == {"PIPE_RWT_CFT"}
Components == WaterMeshes \cup AlarmTanks \cup Pumps \cup Mixers \cup Pipes

\* A freshly loaded node: black emissive at full intensity, unit scale.
NewMesh(y) ==
    [emissive |-> black, emissiveIntensity |-> 1000, positionY |-> y,
     originalY |-> Undef, scaleY |-> 10000, rotationY |-> 0, mapOffsetX |-> 0,
     color |-> 16777215, opacity |-> 10]

\* Math.sin(rate * t), in thousandths, t in milliseconds (Bhaskara's rational
\* approximation on whole degrees).
HalfWave(x) == (4000 * x * (180 - x)) \div (40500 - x * (180 - x))
SinDeg(d) == IF d <= 180 THEN HalfWave(d) ELSE 0 - HalfWave(d - 180)
Sin(rate, t) == SinDeg(((rate * t * 573) \div 10000) % 360)

\* THREE.MathUtils.lerp(x, y, t) = (1 - t) * x + t * y, t in thousandths
Lerp(x, y, t) == x + ((y - x) * t) \div 1000

\* The readings the modelled sources send are numbers.
NumberOf(v) == IF v.t = "num" THEN v.n ELSE 0

Red(c) == c \div 65536
Green(c) == (c \div 256) % 256
Blue(c) == c % 256
Rgb(r, g, b) == r * 65536 + g * 256 + b

\* new THREE.Color().lerpColors(c1, c2, alpha)
LerpColors(c1, c2, alpha) ==
    Rgb(Lerp(Red(c1), Red(c2), alpha), Lerp(Green(c1), Green(c2), alpha),
        Lerp(Blue(c1), Blue(c2), alpha))

Min(a, b) == IF a < b THEN a ELSE b

(***************************************************************************)
(* updateTankLevels and updateWaterColors                                  *)
(***************************************************************************)
TankKey(water) ==
    CASE water = "RWT_Water" -> "RWT" [] water = "CST_Water" -> "CST"
      [] water = "CFT_Water" -> "CFT" [] water = "SCT_Water" -> "SCT"
      [] water = "CWT_Water" -> "CWT" [] OTHER -> "SLT"

targetScale(data) == minScale + (NumberOf(data) * (maxScale - minScale)) \div 1000

\* The mappings whose water mesh is bound and whose Level is not undefined.
LevelDriven(pd, comps) ==
    {m \in WaterMeshes \cap comps : Field(pd, TankKey(m), "Level") # Undef}

SmoothedLevel(w, pd, m, delta) ==
    Lerp(IF m \in DOMAIN w.levels THEN w.levels[m] ELSE w.meshes[m].scaleY,
         targetScale(Field(pd, TankKey(m), "Level")),
         2 * delta)

WaterColor(pd, m) ==
    CASE m = "RWT_Water" ->
           LerpColors(cleanWater, rawWater,
                      Min(NumberOf(OrElse(Field(pd, "RWT", "Turbidity"), Num(0))), 1000))
      [] m = "CWT_Water" -> cleanWater
      [] OTHER -> sludge

updateWaterColors(w, comps) ==
    [w EXCEPT !.meshes =
        [m \in Components |->
            IF m \in {"RWT_Water", "CWT_Water", "SLT_Water"} \cap comps
            THEN [w.meshes[m] EXCEPT !.color = WaterColor(w.pd, m),
                                     !.opacity = IF m = "SLT_Water" THEN 8 ELSE 7]
            ELSE w.meshes[m]]]

updateTankLevels(w, comps, delta) ==
    LET driven == LevelDriven(w.pd, comps)
        lv == [m \in DOMAIN w.levels \cup driven |->
                  IF m \in driven THEN SmoothedLevel(w, w.pd, m, delta)
                  ELSE w.levels[m]]
    IN updateWaterColors(
         [w EXCEPT !.levels = lv,
                   !.meshes = [m \in Components |->
                                  IF m \in driven
                                  THEN [w.meshes[m] EXCEPT !.scaleY = lv[m]]
                                  ELSE w.meshes[m]]],
         comps)

(***************************************************************************)
(* updateMixers                                                            *)
(***************************************************************************)
\* A mixer that goes back to its start when it is switched off.
SpinOrReset(w, comps, m, on, rate) ==
    IF m \in comps
    THEN [w EXCEPT !.meshes[m].rotationY = IF Truthy(on) THEN @ + rate ELSE 0]
    ELSE w

Spin(w, comps, m, on, rate) ==
    IF m \in comps /\ Truthy(on)
    THEN [w EXCEPT !.meshes[m].rotationY = @ + rate]
    ELSE w

updateMixers(w, comps, delta) ==
    Spin(Spin(w, comps, "CFT_Mixer", Field(w.pd, "CFT", "Mixer_Status"), delta * 2),
         comps, "SCT_Scraper", Field(w.pd, "SCT", "Scraper_Status"), delta \div 2)

(***************************************************************************)
(* updatePumps                                                             *)
(***************************************************************************)
\* isOn ? 0.3 + Math.sin(time * 5) * 0.1 : 0
PumpIntensity(isOn, time) == IF Truthy(isOn) THEN 300 + Sin(5, time) \div 10 ELSE 0

PumpColor(isOn) == IF Truthy(isOn) THEN pumpOn ELSE pumpOff

Glow(mesh, isOn, time) ==
    [mesh EXCEPT !.emissive = PumpColor(isOn),
                 !.emissiveIntensity = PumpIntensity(isOn, time)]

\* pump.userData.originalY || pump.position.y
RestY(mesh) == IF Truthy(mesh.originalY) THEN mesh.originalY.n ELSE mesh.positionY

\* The three statements of the `if (isOn)` block.
Vibrate(mesh, isOn, time) ==
    IF Truthy(isOn)
    THEN LET y == RestY(mesh)
             kept == IF Truthy(mesh.originalY) THEN mesh.originalY ELSE Num(y)
         IN [mesh EXCEPT !.positionY = y + (Sin(30, time) * 2),
                         !.originalY = kept]
    ELSE mesh

PumpStatus(pd, pump) ==
    CASE pump = "CDP" -> Field(pd, "CDP", "Status")
      [] pump = "PPS_Pump1" -> Field(pd, "PPS", "Pump1_Status")
      [] OTHER -> Field(pd, "PPS", "Pump2_Status")

updatePumps(w, comps, time) ==
    [w EXCEPT !.meshes =
        [m \in Components |->
            IF m \in Pumps \cap comps
            THEN LET isOn == PumpStatus(w.pd, m)
                     lit == Glow(w.meshes[m], isOn, time)
                 IN IF m \in PpsPumps THEN Vibrate(lit, isOn, time) ELSE lit
            ELSE w.meshes[m]]]

(***************************************************************************)
(* updatePipeFlows                                                         *)
(***************************************************************************)
\* A pipe pass that animates whatever the flow rate.
updatePipeFlowsAlways(w, comps, delta, time) ==
    LET flowRate == NumberOf(OrElse(Field(w.pd, "PPS", "Flow_Rate"), Num(0)))
    IN [w EXCEPT !.meshes =
          [m \in Components |->
              IF m \in Pipes \cap comps
              THEN [w.meshes[m] EXCEPT
                      !.mapOffsetX = IF m \in PipesWithMap
                                     THEN @ + (delta * flowRate) \div 1000 ELSE @,
                      !.emissive = cleanWater,
                      !.emissiveIntensity = 100 + Sin(3, time) \div 20]
              ELSE w.meshes[m]]]

updatePipeFlows(w, comps, delta, time) ==
    LET flowRate == NumberOf(OrElse(Field(w.pd, "PPS", "Flow_Rate"), Num(0)))
    IN [w EXCEPT !.meshes =
          [m \in Components |->
              IF m \in Pipes \cap comps /\ flowRate > 0
              THEN [w.meshes[m] EXCEPT
                      !.mapOffsetX = IF m \in PipesWithMap
                                     THEN @ + (delta * flowRate) \div 1000 ELSE @,
                      !.emissive = cleanWater,
                      !.emissiveIntensity = 100 + Sin(3, time) \div 20]
              ELSE w.meshes[m]]]

(***************************************************************************)
(* updateAlarmEffects, pulseComponent and updateAlarmPanel                 *)
(***************************************************************************)
\* A pulseComponent that does not look whether the component is there.
pulseUnguarded(w, comps, m, pulse) ==
    [w EXCEPT !.meshes[m].emissive = IF pulse THEN alarm ELSE black,
              !.meshes[m].emissiveIntensity = IF pulse THEN 500 ELSE 0]

pulseComponent(w, comps, m, pulse) ==
    IF m \in comps
    THEN [w EXCEPT !.meshes[m].emissive = IF pulse THEN alarm ELSE black,
                   !.meshes[m].emissiveIntensity = IF pulse THEN 500 ELSE 0]
    ELSE w

\* An alarm pass that lists an alarm only while its blink is lit.
RaiseAlarmWhileLit(w, comps, flag, label, targets, pulse) ==
    IF Truthy(flag) /\ pulse
    THEN [w EXCEPT !.activeAlarms = Append(@, label)]
    ELSE w

\* An alarm pass that pushes each label twice.
RaiseAlarmTwice(w, comps, flag, label, targets, pulse) ==
    IF Truthy(flag)
    THEN LET pulsed == [m \in Components |->
                          IF m \in targets
                          THEN pulseComponent(w, comps, m, pulse).meshes[m]
                          ELSE w.meshes[m]]
         IN [w EXCEPT !.activeAlarms = Append(Append(@, label), label),
                      !.meshes = pulsed]
    ELSE w

\* One `if (flag) { activeAlarms.push(label); pulseComponent(...) ... }`.
RaiseAlarm(w, comps, flag, label, targets, pulse) ==
    IF Truthy(flag)
    THEN LET pulsed == [m \in Components |->
                          IF m \in targets
                          THEN pulseComponent(w, comps, m, pulse).meshes[m]
                          ELSE w.meshes[m]]
         IN [w EXCEPT !.activeAlarms = Append(@, label), !.meshes = pulsed]
    ELSE w

updateAlarmPanel(w) ==
    IF Len(w.activeAlarms) > 0
    THEN [w EXCEPT !.panelActive = TRUE, !.panelList = w.activeAlarms]
    ELSE [w EXCEPT !.panelActive = FALSE]

updateAlarmEffects(w, comps, time) ==
    LET alarmPulse == Sin(5, time) > 0
        w0 == [w EXCEPT !.activeAlarms = <<>>]
        w1 == RaiseAlarm(w0, comps, Field(w.pd, "RWT", "High_Level_Alarm"),
                         "RWT High Level", {"RWT"}, alarmPulse)
        w2 == RaiseAlarm(w1, comps, Field(w.pd, "RWT", "Low_Level_Alarm"),
                         "RWT Low Level", {"RWT"}, alarmPulse)
        w3 == RaiseAlarm(w2, comps, Field(w.pd, "CWT", "High_Level_Alarm"),
                         "CWT High Level", {"CWT"}, alarmPulse)
        w4 == RaiseAlarm(w3, comps, Field(w.pd, "CWT", "Low_Level_Alarm"),
                         "CWT Low Level", {"CWT"}, alarmPulse)
        w5 == RaiseAlarm(w4, comps, Field(w.pd, "CDP", "Fault"),
                         "CDP Fault", {"CDP"}, alarmPulse)
        w6 == RaiseAlarm(w5, comps, Field(w.pd, "PPS", "Fault"),
                         "PPS Fault", PpsPumps, alarmPulse)
    IN updateAlarmPanel(w6)

(***************************************************************************)
(* animate: one frame, in the order of the source                          *)
(***************************************************************************)
\* A frame that puts the default payload back into the store.
animateFromDefaults(w, comps, delta, time) ==
    [updateAlarmEffects(
       updatePipeFlows(
         updatePumps(
           updateMixers(
             updateTankLevels(w, comps, delta),
             comps, delta),
           comps, time),
         comps, delta, time),
       comps, time)
     EXCEPT !.pd = getDefaultPayload]

animate(w, comps, delta, time) ==
    updateAlarmEffects(
      updatePipeFlows(
        updatePumps(
          updateMixers(
            updateTankLevels(w, comps, delta),
            comps, delta),
          comps, time),
        comps, delta, time),
      comps, time)

(***************************************************************************)
(* Updates that do not come from the telemetry source.                     *)
(***************************************************************************)
\* Two draws of the simulation timer's random payload.
SimCalm ==
    ("RWT" :> Obj(("Level" :> Num(700)) @@ ("pH" :> Num(70)) @@ ("Turbidity" :> Num(500))
                  @@ ("Inflow_Rate" :> Num(1250)) @@ ("High_Level_Alarm" :> Bool(FALSE))
                  @@ ("Low_Level_Alarm" :> Bool(FALSE))))
 @@ ("CFT" :> Obj(("Level" :> Num(600)) @@ ("Mixer_Status" :> Bool(TRUE))
                  @@ ("pH" :> Num(68)) @@ ("Turbidity" :> Num(250))))
 @@ ("SCT" :> Obj(("Level" :> Num(750)) @@ ("Sludge_Level" :> Num(200))
                  @@ ("Scraper_Status" :> Bool(TRUE))))
 @@ ("CWT" :> Obj(("Level" :> Num(820)) @@ ("pH" :> Num(70))
                  @@ ("Residual_Chlorine" :> Num(9))))
 @@ ("FTR" :> Obj(("Flow_Rate" :> Num(1000)) @@ ("Differential_Pressure" :> Num(10))))
 @@ ("PPS" :> Obj(("Pump1_Status" :> Bool(TRUE)) @@ ("Pump2_Status" :> Bool(FALSE))
                  @@ ("Flow_Rate" :> Num(1100))))
 @@ ("CDP" :> Obj(("Status" :> Bool(TRUE)) @@ ("Dosing_Rate" :> Num(55))))
 @@ ("SLT" :> Obj("Level" :> Num(400)))

SimAlarm ==
    ("RWT" :> Obj(("Level" :> Num(900)) @@ ("pH" :> Num(70)) @@ ("Turbidity" :> Num(500))
                  @@ ("Inflow_Rate" :> Num(1250)) @@ ("High_Level_Alarm" :> Bool(TRUE))
                  @@ ("Low_Level_Alarm" :> Bool(FALSE))))
 @@ ("PPS" :> Obj(("Pump1_Status" :> Bool(TRUE)) @@ ("Pump2_Status" :> Bool(TRUE))
                  @@ ("Flow_Rate" :> Num(1300))))
 @@ SimCalm

SimPayloads == {SimCalm, SimAlarm}

\* Payloads an integrator hands to WTPVisualizer.updatePlantData.  The first is
\* the partial update of the integration guide; the others set the two pump
\* subsystems in full.
GuideExample ==
    ("RWT" :> Obj(("Level" :> Num(750)) @@ ("pH" :> Num(71))))
 @@ ("PPS" :> Obj(("Pump1_Status" :> Bool(TRUE)) @@ ("Flow_Rate" :> Num(1250))))

PumpPayload(on1, on2, fault) ==
    "PPS" :> Obj(("Pump1_Status" :> Bool(on1)) @@ ("Pump2_Status" :> Bool(on2))
                 @@ ("Mode" :> Str("AUTO")) @@ ("Flow_Rate" :> Num(0))
                 @@ ("Outlet_Pressure" :> Num(32)) @@ ("Fault" :> Bool(fault)))

DosingPayload(on, fault) ==
    "CDP" :> Obj(("Status" :> Bool(on)) @@ ("Mode" :> Str("AUTO"))
                 @@ ("Dosing_Rate" :> Num(55)) @@ ("Total_Chemical_Used" :> Num(12500))
                 @@ ("Pressure" :> Num(25)) @@ ("Fault" :> Bool(fault)))

\* A tank reading in full: the clear water tank overflowing, its level sensor
\* past the end of its range.
HighLevelPayload ==
    "CWT" :> Obj(("Level" :> Num(1050)) @@ ("pH" :> Num(72)) @@ ("Turbidity" :> Num(3))
                 @@ ("Residual_Chlorine" :> Num(8)) @@ ("High_Level_Alarm" :> Bool(TRUE))
                 @@ ("Low_Level_Alarm" :> Bool(FALSE)))

MixerPayload(mixer, scraper) ==
    ("CFT" :> Obj(("Level" :> Num(550)) @@ ("Mixer_Status" :> Bool(mixer))
                  @@ ("pH" :> Num(68)) @@ ("Turbidity" :> Num(250))
                  @@ ("Dosing_Rate" :> Num(32))))
 @@ ("SCT" :> Obj(("Level" :> Num(700)) @@ ("Sludge_Level" :> Num(150))
                  @@ ("Turbidity_Outlet" :> Num(80))
                  @@ ("Scraper_Status" :> Bool(scraper))))

\* The clear water tank back in its range, its alarms cleared.
ClearedPayload ==
    "CWT" :> Obj(("Level" :> Num(820)) @@ ("pH" :> Num(70)) @@ ("Turbidity" :> Num(5))
                 @@ ("Residual_Chlorine" :> Num(8)) @@ ("High_Level_Alarm" :> Bool(FALSE))
                 @@ ("Low_Level_Alarm" :> Bool(FALSE)))

\* The raw water tank in full, with or without its high level alarm.
RawWaterPayload(high) ==
    "RWT" :> Obj(("Level" :> Num(IF high THEN 960 ELSE 650))
                 @@ ("High_Level_Alarm" :> Bool(high)) @@ ("Low_Level_Alarm" :> Bool(FALSE))
                 @@ ("Inflow_Rate" :> Num(1200)) @@ ("Outflow_Rate" :> Num(1150))
                 @@ ("pH" :> Num(72)) @@ ("Turbidity" :> Num(450)))

ExternalPayloads ==
    {GuideExample,
     HighLevelPayload,
     PumpPayload(TRUE, FALSE, TRUE) @@ DosingPayload(TRUE, TRUE),
     PumpPayload(FALSE, TRUE, FALSE) @@ DosingPayload(FALSE, FALSE)}

\* Two payloads of an operator's panel: one raises the level alarms of both
\* tanks, the other switches every drive off, stops the flow and clears the
\* alarms.
RaisedPayload == RawWaterPayload(TRUE) @@ HighLevelPayload

AllOffPayload ==
    PumpPayload(FALSE, FALSE, FALSE) @@ DosingPayload(FALSE, FALSE)
        @@ MixerPayload(FALSE, FALSE) @@ RawWaterPayload(FALSE) @@ ClearedPayload

ScenePayloads == {RaisedPayload, AllOffPayload}

(***************************************************************************)
(* Bounds                                                                  *)
(***************************************************************************)
\* Fetches issued in a run of the poller alone, and of the poller with frames.
MaxFetches == 4
MaxLiveFetches == 2
\* Frames rendered in a run of the frame loop with updates, and with the poller.
MaxFrames == 2
MaxLiveFrames == 1
\* Frames rendered in a run of the frame loop with the operator's panel.
MaxSceneFrames == 3

\* Frame deltas the render clock reports, in milliseconds.
Deltas == {16, 600}

\* The models the loader can deliver: the nodes bound and the height the PPS
\* pumps rest at.
FullModel == [bound |-> Components, restY |-> 50000]
PartialModel == [bound |-> Components \ {"PPS_Pump2", "CWT", "SCT_Water", "PIPE_CFT_SCT"},
                 restY |-> 0]
Models == {FullModel, PartialModel}

(***************************************************************************)
(* State                                                                   *)
(***************************************************************************)
VARIABLES
    isPolling, pollingIntervalId, liveTimers, lastFetchTime, connectionStatus,
    consecutiveErrors,      \* the poller
    inFlight, fetchSeq,     \* fetches issued and not yet come back, by issue number
    wallClock,              \* Date: one tick per fetch that comes back
    plantData,              \* the store
    simulationInterval,     \* TRUE while the simulation timer is set
    modelLoaded, components,\* the nodes mapComponent has bound
    restHeight,             \* history: the height the PPS pumps were loaded at
    meshes, animationTargets, activeAlarms, panelActive, panelList,
    elapsedTime, frameNo,   \* the render clock
    lastPayload,            \* history: the argument of the last updatePlantData
    faultRaised,            \* history: the last update raised PPS.Fault on these
                            \* running pumps, and no frame has run since
    apiResponse,            \* the body a telemetry source under test answers with
    transformed,            \* history: what transformApiData returned for it
    lastResult,             \* history: how the last fetch that came back ended
    failRun,                \* history: failed fetches come back since the last success
    restartRun,             \* history: the same, since the last success or start
    staleAnswer,            \* history: the fetch that came back last was issued
                            \* before one that had come back already
    autoStopped             \* history: the poller has stopped itself on a failure

pollerVars == <<isPolling, pollingIntervalId, liveTimers, lastFetchTime, connectionStatus,
                consecutiveErrors>>
fetchVars == <<inFlight, fetchSeq, wallClock, lastResult, failRun, restartRun,
              staleAnswer, autoStopped>>
sourceVars == <<apiResponse, transformed>>
storeVars == <<plantData, lastPayload, faultRaised>>
sceneVars == <<meshes, animationTargets, activeAlarms, panelActive, panelList,
               elapsedTime, frameNo>>
loadVars == <<modelLoaded, components, restHeight>>
vars == <<pollerVars, fetchVars, sourceVars, storeVars, simulationInterval, loadVars,
         sceneVars>>

PollerState ==
    [isPolling |-> isPolling, pollingIntervalId |-> pollingIntervalId,
     liveTimers |-> liveTimers, lastFetchTime |-> lastFetchTime,
     connectionStatus |-> connectionStatus, consecutiveErrors |-> consecutiveErrors]

SetPoller(p) ==
    /\ isPolling' = p.isPolling
    /\ pollingIntervalId' = p.pollingIntervalId
    /\ liveTimers' = p.liveTimers
    /\ lastFetchTime' = p.lastFetchTime
    /\ connectionStatus' = p.connectionStatus
    /\ consecutiveErrors' = p.consecutiveErrors

World ==
    [pd |-> plantData, meshes |-> meshes, levels |-> animationTargets,
     activeAlarms |-> activeAlarms, panelActive |-> panelActive, panelList |-> panelList]

NotYet == "none yet"

\* The module-level state of both scripts once they have loaded.
Constructed ==
    /\ isPolling = FALSE
    /\ pollingIntervalId = FALSE
    /\ liveTimers = 0
    /\ lastFetchTime = 0
    /\ connectionStatus = "disconnected"
    /\ consecutiveErrors = 0
    /\ inFlight = {}
    /\ fetchSeq = 0
    /\ wallClock = 0
    /\ plantData = getDefaultPayload
    /\ simulationInterval = FALSE
    /\ modelLoaded = FALSE
    /\ components = {}
    /\ restHeight = 0
    /\ meshes = [m \in Components |-> NewMesh(0)]
    /\ animationTargets = EmptyObj
    /\ activeAlarms = <<>>
    /\ panelActive = FALSE
    /\ panelList = <<>>
    /\ elapsedTime = 0
    /\ frameNo = 0
    /\ lastPayload = EmptyObj
    /\ faultRaised = {}
    /\ lastResult = NotYet
    /\ failRun = 0
    /\ restartRun = 0
    /\ staleAnswer = FALSE
    /\ autoStopped = FALSE
    /\ transformed = NullState

Init == Constructed /\ apiResponse = NoBody

\* The same, facing a source that answers every fetch with one given body.
InitSource == Constructed /\ apiResponse \in AnswerBodies

\* The PPS pumps that run before and after a store change that raises PPS.Fault.
RaisedOn(before, after) ==
    IF ~Truthy(Field(before, "PPS", "Fault")) /\ Truthy(Field(after, "PPS", "Fault"))
    THEN {p \in PpsPumps : Truthy(PumpStatus(before, p)) /\ Truthy(PumpStatus(after, p))}
    ELSE {}

\* The store and its history after updatePlantData(payload).
Merge(payload) ==
    /\ plantData' = updatePlantData(plantData, payload)
    /\ lastPayload' = payload
    /\ faultRaised' = RaisedOn(plantData, updatePlantData(plantData, payload))

(***************************************************************************)
(* Actions                                                                 *)
(***************************************************************************)
\* A startPolling without the first fetch.
StartWithoutFetch(maxFetches) ==
    /\ isPolling \/ fetchSeq < maxFetches
    /\ SetPoller(startPolling(PollerState))
    /\ restartRun' = IF isPolling THEN restartRun ELSE 0
    /\ UNCHANGED <<inFlight, fetchSeq, wallClock, lastResult, failRun, staleAnswer, autoStopped,
                   sourceVars, storeVars, simulationInterval, loadVars, sceneVars>>

\* startPolling(): by the auto-start timeout, the Start button or a caller.
StartPollingUpTo(maxFetches) ==
    /\ isPolling \/ fetchSeq < maxFetches
    /\ SetPoller(startPolling(PollerState))
    /\ IF isPolling
       THEN UNCHANGED <<inFlight, fetchSeq>>
       ELSE /\ fetchSeq' = fetchSeq + 1
            /\ inFlight' = inFlight \cup {fetchSeq + 1}
    /\ restartRun' = IF isPolling THEN restartRun ELSE 0
    /\ UNCHANGED <<wallClock, lastResult, failRun, staleAnswer, autoStopped, sourceVars, storeVars,
                   simulationInterval, loadVars, sceneVars>>

StartPolling == StartPollingUpTo(MaxFetches)

StopPolling ==
    /\ SetPoller(stopPolling(PollerState))
    /\ UNCHANGED <<fetchVars, sourceVars, storeVars, simulationInterval, loadVars,
                   sceneVars>>

TogglePolling ==
    /\ isPolling \/ fetchSeq < MaxFetches
    /\ SetPoller(togglePolling(PollerState))
    /\ IF isPolling
       THEN UNCHANGED <<inFlight, fetchSeq, restartRun>>
       ELSE /\ fetchSeq' = fetchSeq + 1
            /\ inFlight' = inFlight \cup {fetchSeq + 1}
            /\ restartRun' = 0
    /\ UNCHANGED <<wallClock, lastResult, failRun, staleAnswer, autoStopped, sourceVars, storeVars,
                   simulationInterval, loadVars, sceneVars>>

\* A tick of a live interval timer: fetchAndUpdate() is called.
TickUpTo(maxFetches) ==
    /\ liveTimers > 0
    /\ fetchSeq < maxFetches
    /\ fetchSeq' = fetchSeq + 1
    /\ inFlight' = inFlight \cup {fetchSeq + 1}
    /\ UNCHANGED <<pollerVars, wallClock, lastResult, failRun, restartRun, staleAnswer, autoStopped,
                   sourceVars, storeVars, simulationInterval, loadVars, sceneVars>>

Tick == TickUpTo(MaxFetches)

\* A fetch in flight comes back; fetchPlantData and fetchAndUpdate run to the end.
\* A completion that drops the answer of a fetch issued before one that has
\* come back already.
ComesBackInOrder(id, o) ==
    /\ inFlight' = inFlight \ {id}
    /\ wallClock' = wallClock + 1
    /\ SetPoller(fetchPlantData(PollerState, o, wallClock + 1))
    /\ LET stale == \E later \in (1..fetchSeq) \ inFlight : later > id
           merged == IF stale THEN plantData ELSE fetchAndUpdate(plantData, o)
       IN /\ plantData' = merged
          /\ staleAnswer' = stale
          /\ autoStopped' = (autoStopped \/ (isPolling /\ ~isPolling'))
          /\ IF KindOf(o) = "ok"
             THEN /\ lastPayload' = Transformed[o].state
                  /\ faultRaised' = RaisedOn(plantData, merged)
             ELSE UNCHANGED <<lastPayload, faultRaised>>
    /\ lastResult' = KindOf(o)
    /\ failRun' = IF KindOf(o) = "ok" THEN 0 ELSE failRun + 1
    /\ restartRun' = IF KindOf(o) = "ok" THEN 0 ELSE restartRun + 1
    /\ UNCHANGED <<fetchSeq, apiResponse, simulationInterval, loadVars, sceneVars>>

ComesBack(id, o) ==
    /\ inFlight' = inFlight \ {id}
    /\ wallClock' = wallClock + 1
    /\ SetPoller(fetchPlantData(PollerState, o, wallClock + 1))
    /\ LET merged == fetchAndUpdate(plantData, o)
       IN /\ plantData' = merged
          /\ IF KindOf(o) = "ok"
             THEN /\ lastPayload' = Transformed[o].state
                  /\ faultRaised' = RaisedOn(plantData, merged)
             ELSE UNCHANGED <<lastPayload, faultRaised>>
    /\ lastResult' = KindOf(o)
    /\ failRun' = IF KindOf(o) = "ok" THEN 0 ELSE failRun + 1
    /\ restartRun' = IF KindOf(o) = "ok" THEN 0 ELSE restartRun + 1
    /\ staleAnswer' = (\E later \in (1..fetchSeq) \ inFlight : later > id)
    /\ autoStopped' = (autoStopped \/ (isPolling /\ ~isPolling'))
    /\ UNCHANGED <<fetchSeq, apiResponse, simulationInterval, loadVars, sceneVars>>

FetchComplete ==
    \E id \in inFlight, o \in Outcomes :
        ComesBack(id, o) /\ UNCHANGED transformed

\* The same, the answer being the body of the source under test.
FetchAnswered ==
    \E id \in inFlight :
        /\ ComesBack(id, Answered(apiResponse))
        /\ transformed' = Transformed[Answered(apiResponse)]

\* WTPVisualizer.updatePlantData(payload) called by an integrator.
ExternalUpdate ==
    /\ \E payload \in ExternalPayloads : Merge(payload)
    /\ UNCHANGED <<pollerVars, fetchVars, sourceVars, simulationInterval, loadVars,
                   sceneVars>>

StartSimulation ==
    /\ simulationInterval' = TRUE
    /\ UNCHANGED <<pollerVars, fetchVars, sourceVars, storeVars, loadVars, sceneVars>>

StopSimulation ==
    /\ simulationInterval' = FALSE
    /\ UNCHANGED <<pollerVars, fetchVars, sourceVars, storeVars, loadVars, sceneVars>>

\* The 'Simulate Data' button.
SimulateButton ==
    IF simulationInterval THEN StopSimulation ELSE StartSimulation

\* A tick of the simulation timer.
SimTick ==
    /\ simulationInterval
    /\ \E simData \in SimPayloads : Merge(simData)
    /\ UNCHANGED <<pollerVars, fetchVars, sourceVars, simulationInterval, loadVars,
                   sceneVars>>

\* The loader's callback: mapComponent binds the nodes of the model.
ModelLoaded ==
    /\ ~modelLoaded
    /\ \E model \in Models :
        /\ components' = model.bound
        /\ restHeight' = model.restY
        /\ meshes' = [m \in Components |->
                         NewMesh(IF m \in PpsPumps THEN model.restY ELSE 0)]
    /\ modelLoaded' = TRUE
    /\ UNCHANGED <<pollerVars, fetchVars, sourceVars, storeVars, simulationInterval,
                   animationTargets, activeAlarms, panelActive, panelList,
                   elapsedTime, frameNo>>

\* One run of animate().
FrameUpTo(maxFrames) ==
    /\ frameNo < maxFrames
    /\ \E delta \in Deltas :
        LET time == elapsedTime + delta
            w == animate(World, components, delta, time)
        IN /\ elapsedTime' = time
           /\ plantData' = w.pd
           /\ meshes' = w.meshes
           /\ animationTargets' = w.levels
           /\ activeAlarms' = w.activeAlarms
           /\ panelActive' = w.panelActive
           /\ panelList' = w.panelList
    /\ frameNo' = frameNo + 1
    /\ faultRaised' = {}
    /\ UNCHANGED <<pollerVars, fetchVars, sourceVars, lastPayload, simulationInterval,
                   loadVars>>

Frame == FrameUpTo(MaxFrames)

(***************************************************************************)
(* Specifications.  Spec is the whole program; the others are the parts    *)
(* of it that a group of properties is about, run deeper.                  *)
(***************************************************************************)
Next ==
    \/ StartPolling \/ StopPolling \/ TogglePolling \/ Tick \/ FetchComplete
    \/ ExternalUpdate \/ StartSimulation \/ StopSimulation \/ SimulateButton \/ SimTick
    \/ ModelLoaded \/ Frame

Spec == Init /\ [][Next]_vars

\* The poller and the store it feeds.
NextPoller == StartPolling \/ StopPolling \/ TogglePolling \/ Tick \/ FetchComplete

SpecPoller == Init /\ [][NextPoller]_vars

\* The store under updates from integrators and from the simulation.
NextStore ==
    ExternalUpdate \/ StartSimulation \/ StopSimulation \/ SimulateButton \/ SimTick

SpecStore == Init /\ [][NextStore]_vars

\* The frame loop over a store that integrators update.
NextFrame == ModelLoaded \/ Frame \/ ExternalUpdate

SpecFrame == Init /\ [][NextFrame]_vars

\* The frame loop over a store that the poller feeds.
LiveStart == StartPollingUpTo(MaxLiveFetches)
LiveTick == TickUpTo(MaxLiveFetches)
LiveFrame == FrameUpTo(MaxLiveFrames)

NextLive == LiveStart \/ LiveTick \/ FetchComplete \/ ModelLoaded \/ LiveFrame

SpecLive == Init /\ [][NextLive]_vars

\* The frame loop with the operator's panel, run for more frames.
SceneUpdate ==
    /\ \E payload \in ScenePayloads : Merge(payload)
    /\ UNCHANGED <<pollerVars, fetchVars, sourceVars, simulationInterval, loadVars,
                   sceneVars>>

SceneFrame == FrameUpTo(MaxSceneFrames)

NextScene == ModelLoaded \/ SceneFrame \/ SceneUpdate

SpecScene == Init /\ [][NextScene]_vars

\* The poller next to the simulation controls.
NextModes ==
    NextPoller \/ StartSimulation \/ StopSimulation \/ SimulateButton

SpecModes == Init /\ [][NextModes]_vars

\* The store fed by the poller and by an integrator.
NextFeeds == LiveStart \/ LiveTick \/ FetchComplete \/ ExternalUpdate

SpecFeeds == Init /\ [][NextFeeds]_vars

\* The poller against a source that answers with one body, whatever it is.
NextSource == LiveStart \/ LiveTick \/ StopPolling \/ FetchAnswered

SpecSource == InitSource /\ [][NextSource]_vars

(***************************************************************************)
(* Steps, as the properties below tell them apart                          *)
(***************************************************************************)
\* updatePlantData has run: by an integrator, the simulation or a fetch.
UpdateStep == lastPayload' # lastPayload \/ plantData' # plantData

\* A fetch has come back.
CompletionStep == wallClock' # wallClock
FailureStep == CompletionStep /\ lastResult' # "ok"
SuccessStep == CompletionStep /\ lastResult' = "ok"

\* animate() has run.
FrameStep == frameNo' # frameNo

(***************************************************************************)
(* The store                                                               *)
(***************************************************************************)
\* The fields of a stored subsystem value; an array has none.
FieldsOf(v) == IF v.isArray THEN {} ELSE DOMAIN v.fields

\* The merge the specification words: per subsystem of the update, omitted
\* fields keep their value and supplied fields take the supplied one.
MergedPerField(before, payload, after) ==
    \A k \in DOMAIN payload :
        ~payload[k].isArray =>
            /\ \A f \in FieldsOf(payload[k]) :
                   Field(after, k, f) = payload[k].fields[f]
            /\ k \in DOMAIN before =>
                   \A f \in FieldsOf(before[k]) \ FieldsOf(payload[k]) :
                       Field(after, k, f) = Field(before, k, f)

\* C1: after updatePlantData(update), for every subsystem key of the update,
\* each field the update omits keeps the value it had before the call and each
\* field it supplies has the supplied value.
C1_MergePerField ==
    [][UpdateStep => MergedPerField(plantData, lastPayload', plantData')]_vars

(***************************************************************************)
(* The poller                                                              *)
(***************************************************************************)
\* C2: the failure that brings the run of failures since the last success
\* to maxRetries leaves the poller stopped with no interval timer, and a fetch is
\* issued only by a poller that is started.
C2_StopsAtMaxRetries ==
    [][/\ FailureStep /\ failRun' >= maxRetries =>
              ~isPolling' /\ ~pollingIntervalId' /\ liveTimers' = 0
       /\ fetchSeq' # fetchSeq => isPolling']_vars

\* The third failure in a row has come back and the poller is stopped.
C2_Stopped ==
    /\ failRun = maxRetries
    /\ lastResult = "protocol"
    /\ ~isPolling /\ liveTimers = 0
    /\ fetchSeq = maxRetries

\* C7: every field the frame update and the dashboard read is defined in the
\* store, before the first fetch and after any fetches.
ReadFields ==
    {<<t, "Level">> : t \in {"RWT", "CST", "CFT", "SCT", "CWT", "SLT"}}
    \cup {<<"RWT", "Turbidity">>, <<"CFT", "Mixer_Status">>, <<"SCT", "Scraper_Status">>,
          <<"CDP", "Status">>, <<"PPS", "Pump1_Status">>, <<"PPS", "Pump2_Status">>,
          <<"PPS", "Flow_Rate">>, <<"CDP", "Fault">>, <<"PPS", "Fault">>}
    \cup {<<t, a>> : t \in {"RWT", "CWT"}, a \in {"High_Level_Alarm", "Low_Level_Alarm"}}

C7_ReadFieldsDefined ==
    \A kf \in ReadFields : Field(plantData, kf[1], kf[2]) # Undef

C9_SuccessResets ==
    [][/\ SuccessStep =>
              /\ connectionStatus' = "connected"
              /\ consecutiveErrors' = 0
              /\ lastFetchTime' = wallClock'
       /\ CompletionStep /\ isPolling /\ ~isPolling' =>
              lastResult' # "ok" /\ failRun' >= maxRetries]_vars

\* A success after two failures: the poller is still running, four fetches in.
C9_RecoveredInTime ==
    /\ lastResult = "ok"
    /\ wallClock = maxRetries
    /\ fetchSeq = maxRetries + 1
    /\ isPolling
    /\ consecutiveErrors = 0
    /\ connectionStatus = "connected"

\* C10: a fetch that fails, for whatever reason, leaves the store as it was.
C10_FailureKeepsStore ==
    [][FailureStep => plantData' = plantData]_vars

\* A failure has come back to a store that holds telemetry.
C10_FailedAfterTelemetry ==
    /\ lastResult \in {"transport", "protocol", "normalization"}
    /\ failRun = 1
    /\ plantData = TransformRecord(RecAlarms)

(***************************************************************************)
(* The pumps                                                               *)
(***************************************************************************)
FaultOf(pd, pump) == Field(pd, IF pump = "CDP" THEN "CDP" ELSE "PPS", "Fault")

\* The height a pump was loaded at.
RestOf(pump) == IF pump \in PpsPumps THEN restHeight ELSE 0

\* A colour in which red dominates, as the alarm colour and no gray does.
IsRed(c) == Red(c) >= 2 * Green(c) /\ Red(c) >= 2 * Blue(c) /\ Red(c) > 0

\* FAULT at the given time: lit in the alarm colour while sin(5t) > 0, dark
\* otherwise, and at rest.
FaultVisual(mesh, time, rest) ==
    /\ Sin(5, time) > 0 => mesh.emissive = alarm /\ mesh.emissiveIntensity > 0
    /\ Sin(5, time) <= 0 => mesh.emissiveIntensity = 0
    /\ mesh.positionY = rest

\* ON: green, intensity 0.3 + 0.1 sin(5t), displaced by 0.02 sin(30t).
OnVisual(mesh, time, rest) ==
    /\ mesh.emissive = pumpOn
    /\ mesh.emissiveIntensity = 300 + Sin(5, time) \div 10
    /\ mesh.emissiveIntensity > 0
    /\ mesh.positionY = rest + Sin(30, time) * 2

\* OFF: red, dark, at rest.
OffVisual(mesh, rest) ==
    /\ IsRed(mesh.emissive)
    /\ mesh.emissiveIntensity = 0
    /\ mesh.positionY = rest

\* C3: at the end of every frame whose snapshot has a pump's fault flag
\* true, that pump shows FAULT (alarm red, binary blink, no displacement),
\* whatever its status.
C3_FaultDominates ==
    [][FrameStep =>
          \A p \in Pumps \cap components :
              FaultOf(plantData, p) = Bool(TRUE) =>
                  FaultVisual(meshes'[p], elapsedTime', RestOf(p))]_vars

\* C4: every frame over the store that holds the transformed record with
\* ppsPumpStatus true, cdpStatus false and no fault shows the PPS pumps ON and
\* the CDP OFF.
C4_ScenarioResolves ==
    [][FrameStep /\ plantData = TransformRecord(RecScenario) =>
          /\ \A p \in PpsPumps \cap components :
                 OnVisual(meshes'[p], elapsedTime', RestOf(p))
          /\ "CDP" \in components => OffVisual(meshes'["CDP"], RestOf("CDP"))]_vars

\* The passes of a frame run in a given order.
RunPass(pass, w, comps, delta, time) ==
    CASE pass = "updateTankLevels" -> updateTankLevels(w, comps, delta)
      [] pass = "updateMixers" -> updateMixers(w, comps, delta)
      [] pass = "updatePumps" -> updatePumps(w, comps, time)
      [] pass = "updatePipeFlows" -> updatePipeFlows(w, comps, delta, time)
      [] OTHER -> updateAlarmEffects(w, comps, time)

RECURSIVE RunPasses(_, _, _, _, _)
RunPasses(order, w, comps, delta, time) ==
    IF order = <<>> THEN w
    ELSE RunPasses(Tail(order), RunPass(Head(order), w, comps, delta, time),
                   comps, delta, time)

SourceOrder ==
    <<"updateTankLevels", "updateMixers", "updatePumps", "updatePipeFlows",
      "updateAlarmEffects">>

PassOrders ==
    {SourceOrder,
     <<"updateAlarmEffects", "updateTankLevels", "updateMixers", "updatePumps",
       "updatePipeFlows">>}

\* C5: the first frame after an update that raises PPS.Fault while the
\* pumps' status stays true shows those pumps in FAULT, in whatever order the
\* frame runs its passes.
C5_FaultOnNextFrame ==
    [][FrameStep =>
          \A p \in faultRaised \cap components :
              /\ FaultVisual(meshes'[p], elapsedTime', RestOf(p))
              /\ \A order \in PassOrders :
                     FaultVisual(RunPasses(order, World, components,
                                           elapsedTime' - elapsedTime,
                                           elapsedTime').meshes[p],
                                 elapsedTime', RestOf(p))]_vars

\* C6: at the end of every frame, a pump whose fault flag is false shows ON
\* (green, intensity 0.3 + 0.1 sin(5t), vibrating) when its status is true and
\* OFF (red, dark, at rest) when its status is false; the CDP as the PPS pumps.
C6_OnOffVisuals ==
    [][FrameStep =>
          \A p \in Pumps \cap components :
              FaultOf(plantData, p) = Bool(FALSE) =>
                  /\ PumpStatus(plantData, p) = Bool(TRUE) =>
                         OnVisual(meshes'[p], elapsedTime', RestOf(p))
                  /\ PumpStatus(plantData, p) = Bool(FALSE) =>
                         OffVisual(meshes'[p], RestOf(p))]_vars

(***************************************************************************)
(* The normalizer                                                          *)
(***************************************************************************)
\* data.waterTreatmentPlantComponentsData[0] is missing.
NoRecordAt0(body) == ~body.hasData \/ body.records = <<>>

\* The body cut down to element 0 of its array.
FirstOnly(body) == [body EXCEPT !.records = <<body.records[1]>>]

\* C11: transformApiData returns null exactly when the answer has no
\* record at element 0; otherwise what it returns is what it returns for element
\* 0 alone; and a null result counts as one failure, as a transport failure or
\* an HTTP failure in its place would.
C11_FirstRecordOrNull ==
    [][CompletionStep =>
          /\ transformed'.isNull <=> NoRecordAt0(apiResponse)
          /\ ~transformed'.isNull =>
                 /\ transformed' = transformApiData(FirstOnly(apiResponse))
                 /\ lastPayload' = transformed'.state
          /\ transformed'.isNull =>
                 /\ consecutiveErrors' = consecutiveErrors + 1
                 /\ \A o \in FailureOutcomes :
                        LET p == fetchPlantData(PollerState, o, wallClock')
                        IN /\ p.consecutiveErrors = consecutiveErrors'
                           /\ p.isPolling = isPolling'
                           /\ p.liveTimers = liveTimers']_vars

\* An answer of two records has come back and only the first was used.
C11_SecondRecordIgnored ==
    /\ Len(apiResponse.records) = 2
    /\ ~transformed.isNull
    /\ transformed.state = TransformRecord(apiResponse.records[1])
    /\ transformed.state # TransformRecord(apiResponse.records[2])
    /\ plantData = transformed.state

\* What a source value can be read as.
Coercible(v, kind) ==
    CASE kind = "number" -> v.t = "num" \/ (v.t = "str" /\ v.s \in DOMAIN FloatTable)
      [] kind = "flag" -> v.t = "bool"
      [] OTHER -> v.t = "str" /\ v.s # ""

\* The default policy: the source value, as sent or read as a number, when it
\* is present and coercible, the default otherwise.
Defaulted(out, v, kind, default) ==
    IF Coercible(v, kind)
    THEN out = v \/ (kind = "number" /\ out = ParseFloat(v))
    ELSE out = default

\* C12: each canonical field is the source value when that is present and
\* coercible and the field's own default (0, false, 'AUTO', 7.0 for pH) when it
\* is absent or not coercible.
C12_DefaultPolicy ==
    [][CompletionStep /\ ~transformed'.isNull =>
          LET w == apiResponse.records[1]
              st == transformed'.state
          IN /\ Defaulted(Field(st, "RWT", "Level"), Prop(w, "rwtLevel"),
                          "number", Num(0))
             /\ Defaulted(Field(st, "RWT", "pH"), Prop(w, "rwtph"), "number", Num(70))
             /\ Defaulted(Field(st, "PPS", "Mode"), Prop(w, "ppsMode"),
                          "text", Str("AUTO"))
             /\ Defaulted(Field(st, "PPS", "Status"), Prop(w, "ppsPumpStatus"),
                          "flag", Bool(FALSE))
             /\ Defaulted(Field(st, "CDP", "Fault"), Prop(w, "cdpFault"),
                          "flag", Bool(FALSE))]_vars

(***************************************************************************)
(* Starting and stopping                                                   *)
(***************************************************************************)
\* startPolling or stopPolling has taken effect.
StartStep == ~isPolling /\ isPolling'
StopStep == isPolling /\ ~isPolling' /\ ~CompletionStep

\* C13: startPolling on a stopped poller issues exactly one fetch at once
\* and sets one interval timer; every fetch issued, by it or by a tick, is one
\* new fetch added to those in flight, none of which is cancelled.
C13_StartFetchesThenTicks ==
    [][/\ StartStep =>
              /\ fetchSeq' = fetchSeq + 1
              /\ pollingIntervalId' /\ liveTimers' = liveTimers + 1
       /\ fetchSeq' # fetchSeq =>
              /\ fetchSeq' = fetchSeq + 1
              /\ inFlight' = inFlight \cup {fetchSeq'}
              /\ StartStep \/ (liveTimers > 0 /\ UNCHANGED pollerVars)]_vars

\* Ticks have issued fetches while the earlier ones were still in flight.
C13_Overlapping ==
    /\ isPolling /\ liveTimers = 1
    /\ fetchSeq = 3
    /\ inFlight = {1, 2, 3}

\* C14: stopPolling clears the interval timer, so that afterwards only a
\* new start issues a fetch, and leaves the fetches in flight alone; one of
\* them coming back with success on the stopped poller is merged into the store
\* and sets the status and the timestamp.
C14_StopLeavesInFlight ==
    [][/\ StopStep =>
              /\ liveTimers' = 0 /\ ~pollingIntervalId'
              /\ inFlight' = inFlight
       /\ ~isPolling /\ fetchSeq' # fetchSeq => StartStep
       /\ ~isPolling /\ SuccessStep =>
              /\ plantData' = updatePlantData(plantData, lastPayload')
              /\ \A k \in DOMAIN lastPayload' : plantData'[k] = lastPayload'[k]
              /\ connectionStatus' = "connected"
              /\ lastFetchTime' = wallClock']_vars

\* A fetch has come back with telemetry to a poller that was stopped first.
C14_MergedAfterStop ==
    /\ ~isPolling /\ liveTimers = 0
    /\ fetchSeq = 1 /\ inFlight = {}
    /\ lastResult = "ok"
    /\ plantData = TransformRecord(RecPpsFault)
    /\ lastFetchTime = wallClock

\* C15: whenever polling is not running the status is 'disconnected'.
C15_StoppedIsDisconnected ==
    ~isPolling => connectionStatus = "disconnected"

\* C16: the polling timer and the simulation timer are never both set.
C16_OneSourceAtATime ==
    ~(liveTimers > 0 /\ simulationInterval)

(***************************************************************************)
(* Smoothing, alarms, repeated resolution, the keys of the store           *)
(***************************************************************************)
\* x lies between a and b, ends included.
Between(x, a, b) == (a <= x /\ x <= b) \/ (b <= x /\ x <= a)

\* C17: on every frame the smoothed scale of every tank that is driven
\* moves from where it was toward the target of the snapshot and does not pass
\* it, whatever the frame's delta.
C17_NoOvershoot ==
    [][FrameStep =>
          \A m \in LevelDriven(plantData, components) :
              Between(meshes'[m].scaleY,
                      IF m \in DOMAIN animationTargets
                      THEN animationTargets[m] ELSE meshes[m].scaleY,
                      targetScale(Field(plantData, TankKey(m), "Level")))]_vars

\* The alarm list of a snapshot, taken by the alarm pass on a scene with no
\* node bound and no history, at time zero.
NoScene ==
    [pd |-> getDefaultPayload, meshes |-> [m \in Components |-> NewMesh(0)],
     levels |-> EmptyObj, activeAlarms |-> <<>>, panelActive |-> FALSE,
     panelList |-> <<>>]

AlarmsOf(pd) == updateAlarmEffects([NoScene EXCEPT !.pd = pd], {}, 0).activeAlarms

AlarmFlags ==
    {<<"RWT", "High_Level_Alarm">>, <<"RWT", "Low_Level_Alarm">>,
     <<"CWT", "High_Level_Alarm">>, <<"CWT", "Low_Level_Alarm">>,
     <<"CDP", "Fault">>, <<"PPS", "Fault">>}

\* C18: the alarm list a frame leaves is the list of its snapshot alone,
\* the same labels in the same order at any time and after any frames, and it
\* is empty when the snapshot sets no alarm or fault flag.
C18_AlarmsOfSnapshot ==
    [][FrameStep =>
          /\ activeAlarms' = AlarmsOf(plantData)
          /\ (\A kf \in AlarmFlags : ~Truthy(Field(plantData, kf[1], kf[2])))
                 => activeAlarms' = <<>>]_vars

\* The second frame on a snapshot of three alarms, in the dark half of the
\* blink.
C18_SameListInTheDark ==
    /\ frameNo = 2
    /\ Sin(5, elapsedTime) <= 0
    /\ activeAlarms = <<"CWT High Level", "CDP Fault", "PPS Fault">>

\* C19: at the time of any frame, on the snapshot and scene the frame
\* starts from, a second run of updatePumps leaves every pump whose fault flag
\* is false with the emissive colour, intensity and height the first run left.
C19_PumpsIdempotent ==
    [][FrameStep =>
          LET once == updatePumps(World, components, elapsedTime')
              twice == updatePumps(once, components, elapsedTime')
          IN \A p \in Pumps \cap components :
                 FaultOf(plantData, p) = Bool(FALSE) =>
                     /\ twice.meshes[p].emissive = once.meshes[p].emissive
                     /\ twice.meshes[p].emissiveIntensity =
                            once.meshes[p].emissiveIntensity
                     /\ twice.meshes[p].positionY = once.meshes[p].positionY]_vars

\* C20: after updatePlantData every key the update does not carry has the
\* value it had, and a key whose value in the update is an array holds that
\* array.
C20_AbsentKeysKept ==
    [][UpdateStep =>
          /\ \A k \in DOMAIN plantData \ DOMAIN lastPayload' :
                 k \in DOMAIN plantData' /\ plantData'[k] = plantData[k]
          /\ \A k \in DOMAIN lastPayload' :
                 lastPayload'[k].isArray => plantData'[k] = lastPayload'[k]]_vars

\* The guide's partial update on top of telemetry: the arrays are still there.
C20_ArraysUnderPartialUpdate ==
    /\ lastPayload = GuideExample
    /\ plantData["SCT"] = TransformRecord(RecAlarms)["SCT"]
    /\ plantData["CWT"].isArray
    /\ plantData["CDP"] = TransformRecord(RecAlarms)["CDP"]
    /\ plantData["RWT"] = GuideExample["RWT"]

(***************************************************************************)
(* Toggling, restarting, overlapping                                       *)
(***************************************************************************)
\* C21: togglePolling leaves a running poller stopped and a stopped poller
\* running, so that a second toggle right after it restores the running state.
C21_ToggleInverts ==
    [][/\ TogglePolling => isPolling' = ~isPolling
       /\ togglePolling(PollerState).isPolling = ~isPolling
       /\ togglePolling(togglePolling(PollerState)).isPolling = isPolling]_vars

\* Toggled on, off, on and off again with no answer in between.
C21_ToggledFourTimes ==
    /\ ~isPolling /\ liveTimers = 0
    /\ fetchSeq = 2 /\ inFlight = {1, 2}
    /\ wallClock = 0

\* C23: a poller that has stopped itself and has been restarted stops itself
\* again only on a failure that completes a run of maxRetries failures come
\* back since the restart.
C23_FreshBudget ==
    [][CompletionStep /\ autoStopped /\ isPolling /\ ~isPolling'
          => restartRun' >= maxRetries]_vars

\* C24: a fetch that comes back with telemetry is merged when it comes
\* back, so the store then holds its values, also when a fetch issued after it
\* has come back before it.
C24_CompletionOrder ==
    [][SuccessStep =>
          /\ plantData' = updatePlantData(plantData, lastPayload')
          /\ \A k \in DOMAIN lastPayload' : plantData'[k] = lastPayload'[k]]_vars

\* The first fetch has come back after the second and its telemetry is in
\* the store.
C24_OlderAnswerWins ==
    /\ staleAnswer
    /\ fetchSeq = 2 /\ inFlight = {}
    /\ lastResult = "ok"
    /\ plantData = TransformRecord(RecAlarms)

(***************************************************************************)
(* What a frame writes                                                     *)
(***************************************************************************)
\* C22: at the end of every frame each pump has the emissive colour and
\* intensity that updatePumps gave it in that frame; the alarm pass has not
\* assigned them again.
C22_PumpsKeepResolverGlow ==
    [][FrameStep =>
          LET resolved == updatePumps(World, components, elapsedTime')
          IN \A p \in Pumps \cap components :
                 /\ meshes'[p].emissive = resolved.meshes[p].emissive
                 /\ meshes'[p].emissiveIntensity =
                        resolved.meshes[p].emissiveIntensity]_vars

\* C26: at whatever height the model rests a PPS pump, the rest height a
\* frame has recorded for it never changes, and every frame in which the pump
\* is ON leaves it at the height it was loaded at plus 0.02 sin(30t).
C26_NoDrift ==
    [][FrameStep =>
          \A p \in PpsPumps \cap components :
              /\ meshes[p].originalY # Undef => meshes'[p].originalY = meshes[p].originalY
              /\ Truthy(PumpStatus(plantData, p)) =>
                     meshes'[p].positionY = restHeight + Sin(30, elapsedTime') * 2]_vars

\* The outputs of a frame on a component.
Outputs(mesh, rest) ==
    <<mesh.emissive, mesh.emissiveIntensity, mesh.positionY - rest>>

\* The scene as the loader leaves it.
Loaded ==
    [World EXCEPT !.meshes = [m \in Components |-> NewMesh(RestOf(m))],
                  !.levels = EmptyObj,
                  !.activeAlarms = <<>>,
                  !.panelActive = FALSE,
                  !.panelList = <<>>]

\* C27: a frame leaves every component with the emissive colour, the
\* intensity and the position offset that the first frame after loading leaves
\* on the same snapshot at the same time.
C27_OutputsOfSnapshotAndTime ==
    [][FrameStep =>
          LET first == animate(Loaded, components, elapsedTime' - elapsedTime,
                               elapsedTime')
          IN \A m \in components :
                 Outputs(meshes'[m], RestOf(m)) = Outputs(first.meshes[m], RestOf(m))]_vars

\* The labels in the order of the alarm pass, and the flag behind each.
AlarmOrder ==
    <<"RWT High Level", "RWT Low Level", "CWT High Level", "CWT Low Level",
      "CDP Fault", "PPS Fault">>

FlagOf(label) ==
    CASE label = "RWT High Level" -> <<"RWT", "High_Level_Alarm">>
      [] label = "RWT Low Level" -> <<"RWT", "Low_Level_Alarm">>
      [] label = "CWT High Level" -> <<"CWT", "High_Level_Alarm">>
      [] label = "CWT Low Level" -> <<"CWT", "Low_Level_Alarm">>
      [] label = "CDP Fault" -> <<"CDP", "Fault">>
      [] OTHER -> <<"PPS", "Fault">>

PlaceOf(label) == CHOOSE i \in 1..Len(AlarmOrder) : AlarmOrder[i] = label

\* C29: the alarm list a frame leaves has its labels in the order of the
\* alarm pass with none twice, and every label in it has its flag set in the
\* snapshot of that frame.
C29_OrderedNoCarryOver ==
    [][FrameStep =>
          /\ \A i \in 1..Len(activeAlarms') :
                 /\ \E j \in 1..Len(AlarmOrder) : AlarmOrder[j] = activeAlarms'[i]
                 /\ Truthy(Field(plantData, FlagOf(activeAlarms'[i])[1],
                                 FlagOf(activeAlarms'[i])[2]))
          /\ \A i, j \in 1..Len(activeAlarms') :
                 i < j => PlaceOf(activeAlarms'[i]) < PlaceOf(activeAlarms'[j])]_vars

\* The faults the first frame listed were cleared before the second.
C29_ListEmptiedAfterClear ==
    /\ frameNo = 2
    /\ activeAlarms = <<>>
    /\ panelList = <<"CDP Fault", "PPS Fault">>

\* C30: on every frame the target scale of every driven tank is within
\* [minScale, maxScale], and a water mesh whose scale was within that range
\* keeps it there.
C30_ScaleWithinRange ==
    [][FrameStep =>
          \A m \in LevelDriven(plantData, components) :
              /\ minScale <= targetScale(Field(plantData, TankKey(m), "Level"))
              /\ targetScale(Field(plantData, TankKey(m), "Level")) <= maxScale
              /\ (minScale <= meshes[m].scaleY /\ meshes[m].scaleY <= maxScale)
                     => (minScale <= meshes'[m].scaleY /\ meshes'[m].scaleY <= maxScale)]_vars

(***************************************************************************)
(* Frames next to the poller                                               *)
(***************************************************************************)
\* The reading a transformed record carries for a subsystem, in the object
\* or in the first tank of the array transformApiData built for it.
Carried(state, key, name) ==
    IF key \notin DOMAIN state THEN Undef
    ELSE IF state[key].isArray THEN Prop(state[key].items[1], name)
    ELSE Prop(state[key].fields, name)

Listed(list) == {list[i] : i \in 1..Len(list)}

\* C28: every frame after a telemetry record has been merged lists the
\* label of every alarm and fault flag the record last merged sets.
C28_RecordFlagsListed ==
    [][FrameStep /\ lastPayload # EmptyObj =>
          \A label \in Listed(AlarmOrder) :
              Truthy(Carried(lastPayload, FlagOf(label)[1], FlagOf(label)[2]))
                  => label \in Listed(activeAlarms')]_vars

\* A store that holds whole updates only: the default payload, or the
\* default payload under every subsystem of the record merged last.
WholeSnapshot(pd) ==
    IF lastPayload = EmptyObj THEN pd = getDefaultPayload
    ELSE /\ \A k \in DOMAIN lastPayload : k \in DOMAIN pd /\ pd[k] = lastPayload[k]
         /\ \A k \in DOMAIN pd \ DOMAIN lastPayload : pd[k] = getDefaultPayload[k]

\* C25: under every interleaving of frames, ticks and fetches coming back,
\* the store a frame reads is the store before or after a whole
\* updatePlantData, the frame leaves it as it is, and its last pass has read
\* that same store.
C25_FramesReadWholeStore ==
    [][FrameStep =>
          /\ WholeSnapshot(plantData)
          /\ plantData' = plantData
          /\ activeAlarms' = AlarmsOf(plantData)]_vars

\* A frame has run on a merged record while the next fetch was in flight.
C25_FrameBetweenFetches ==
    /\ frameNo = 1
    /\ inFlight = {2}
    /\ lastResult = "ok"
    /\ lastPayload = TransformRecord(RecAlarms)
    /\ activeAlarms = <<"RWT High Level", "CDP Fault">>

(***************************************************************************)
(* Mixers, overlays, pipes                                                 *)
(***************************************************************************)
\* The drive flag the frame reads for a mixer, and the rate it turns at.
DriveFlag(pd, m) ==
    IF m = "CFT_Mixer" THEN Field(pd, "CFT", "Mixer_Status")
    ELSE Field(pd, "SCT", "Scraper_Status")

TurnOf(m, delta) == IF m = "CFT_Mixer" THEN delta * 2 ELSE delta \div 2

C32_OverlayGoneWhenCleared ==
    [][FrameStep =>
          \A t \in AlarmTanks \cap components :
              (/\ ~Truthy(Field(plantData, t, "High_Level_Alarm"))
               /\ ~Truthy(Field(plantData, t, "Low_Level_Alarm")))
                  => ~(meshes'[t].emissive = alarm /\ meshes'[t].emissiveIntensity > 0)]_vars

\* C33: at the end of every frame whose snapshot has a PPS pump's status
\* false, that pump is at the height it was loaded at.
C33_OffPumpAtRest ==
    [][FrameStep =>
          \A p \in PpsPumps \cap components :
              PumpStatus(plantData, p) = Bool(FALSE) =>
                  meshes'[p].positionY = restHeight]_vars

\* The flow rate reading of a snapshot, as the pipe pass takes it.
FlowRate(pd) == NumberOf(OrElse(Field(pd, "PPS", "Flow_Rate"), Num(0)))

C36_FramesLeaveStore ==
    [][/\ FrameStep =>
             LET delta == elapsedTime' - elapsedTime
             IN /\ plantData' = plantData
                /\ \A pass \in Listed(SourceOrder) :
                       RunPass(pass, World, components, delta, elapsedTime').pd = plantData
       /\ plantData' # plantData =>
              /\ lastPayload' # EmptyObj
              /\ plantData' = updatePlantData(plantData, lastPayload')
              /\ ~FrameStep]_vars

\* Three frames and an update between them: the store is the update over
\* the defaults.
C36_StoreAfterFrames ==
    /\ frameNo = 3
    /\ lastPayload = RaisedPayload
    /\ plantData = updatePlantData(getDefaultPayload, RaisedPayload)
    /\ activeAlarms = <<"RWT High Level", "CWT High Level">>

\* C37: a frame changes nothing on a component that is not bound, whatever
\* is bound, leaves no level target for it, and lists the alarms it would list
\* with every component bound; the same with any one more component left out.
C37_UnboundAreNoOps ==
    [][FrameStep =>
          LET delta == elapsedTime' - elapsedTime
              all == animate(World, Components, delta, elapsedTime')
          IN /\ \A m \in Components \ components :
                    /\ meshes'[m] = meshes[m]
                    /\ m \in DOMAIN animationTargets' => m \in DOMAIN animationTargets
             /\ activeAlarms' = all.activeAlarms
             /\ \A c \in components :
                    LET without == animate(World, components \ {c}, delta, elapsedTime')
                    IN /\ without.meshes[c] = meshes[c]
                       /\ c \in DOMAIN without.levels => c \in DOMAIN animationTargets
                       /\ without.activeAlarms = all.activeAlarms]_vars

\* A frame on the partial model has listed the alarm of the tank it has no
\* node for.
C37_AlarmOfUnboundTank ==
    /\ frameNo = 1
    /\ components = PartialModel.bound
    /\ activeAlarms = <<"RWT High Level", "CWT High Level">>
    /\ meshes["CWT"] = NewMesh(0)
    /\ meshes["RWT"].emissive = alarm

(***************************************************************************)
(* The paired subsystems                                                   *)
(***************************************************************************)
Paired == {"SCT", "CWT"}

LevelFieldOf(key) == IF key = "SCT" THEN "sctLevel" ELSE "cwtLevel"

\* C38: whatever record the source answers with, SCT and CWT of what
\* transformApiData returns are arrays of two slots that are equal field by
\* field, and a level the record carries is the Level of both.
C38_SlotsReplicated ==
    [][CompletionStep /\ ~transformed'.isNull =>
          \A key \in Paired :
              LET sub == transformed'.state[key]
                  sent == Prop(apiResponse.records[1], LevelFieldOf(key))
              IN /\ sub.isArray
                 /\ Len(sub.items) = 2
                 /\ DOMAIN sub.items[1] = DOMAIN sub.items[2]
                 /\ \A f \in DOMAIN sub.items[1] : sub.items[1][f] = sub.items[2][f]
                 /\ Truthy(sent) =>
                        sub.items[1]["Level"] = sent /\ sub.items[2]["Level"] = sent]_vars

\* The record of the two tanks has come back and is in the store.
C38_TanksInBothSlots ==
    /\ apiResponse.hasData
    /\ apiResponse.records = <<RecTanks>>
    /\ ~transformed.isNull
    /\ transformed.state["SCT"].items[2]["Scraper_Status"] = Bool(TRUE)
    /\ transformed.state["CWT"].items[2]["pH"] = Num(72)
    /\ plantData["CWT"] = transformed.state["CWT"]

(***************************************************************************)
(* The polling timer                                                       *)
(***************************************************************************)
\* One timer at most, set exactly while the poller runs.
TimerMatches(polling, id, timers) ==
    /\ timers \in {0, 1}
    /\ timers = 1 <=> polling
    /\ id <=> polling

\* C34: in every state there is at most one polling timer and it is live
\* exactly when isPolling is true; startPolling on a running poller and
\* stopPolling on a stopped one change nothing, and a timer is only ever created
\* by a start of a stopped poller, together with that start's fetch.
C34_OneTimerWhilePolling ==
    [][/\ TimerMatches(isPolling, pollingIntervalId, liveTimers)
       /\ TimerMatches(isPolling', pollingIntervalId', liveTimers')
       /\ isPolling => startPolling(PollerState) = PollerState
       /\ ~isPolling => stopPolling(PollerState) = PollerState
       /\ liveTimers' > liveTimers =>
              ~isPolling /\ isPolling' /\ fetchSeq' = fetchSeq + 1
       /\ isPolling /\ isPolling' /\ fetchSeq' # fetchSeq =>
              /\ liveTimers' = liveTimers
              /\ connectionStatus' = connectionStatus]_vars

\* The poller has stopped itself, has been started again, and one timer is
\* live.
C34_RestartedWithOneTimer ==
    /\ autoStopped
    /\ isPolling
    /\ pollingIntervalId
    /\ liveTimers = 1
    /\ fetchSeq = 4

=============================================================================
